---- MODULE Spec2Model ----
(***************************************************************************)
(* YourCabs cancellation prediction: the ModelPredictor of                 *)
(* src/src/model_utils.py (artifact loading, single-record feature         *)
(* building, scoring, risk categorisation, batch scoring) and the          *)
(* "Load Model" control of src/src/app.py that constructs it.              *)
(*                                                                         *)
(* Probabilities are fixed-point numbers in ten-thousandths: 1090 is       *)
(* 0.109, 10000 is 1.0.  Every threshold of the code is a multiple of one  *)
(* ten-thousandth, so a grid point p stands for the float p/10000 and the  *)
(* neighbours of a threshold stand for the floats just below and above it. *)
(***************************************************************************)
EXTENDS Integers, Sequences, FiniteSets, TLC

VARIABLES modelFile, metadataFile, model_loaded, predictor, pc, arg, result,
          caller, classifier, memo

vars == <<modelFile, metadataFile, model_loaded, predictor, pc, arg, result,
          caller, classifier, memo>>

(***************************************************************************)
(* Bounds of the model.                                                    *)
(***************************************************************************)
MaxPresent == 1     \* keys present in an enumerated booking record
MaxRows == 2        \* rows of an enumerated batch table
Near == 1           \* grid points kept on each side of a threshold

(***************************************************************************)
(* Python values.  Every value is a record of the same shape so that any   *)
(* two values can be compared: k is the Python type, n the number (or the  *)
(* minutes since 2013-01-01 00:00 of a timestamp), s the string.           *)
(***************************************************************************)
NoneV == [k |-> "none", n |-> 0, s |-> ""]
I(x) == [k |-> "int", n |-> x, s |-> ""]
S(x) == [k |-> "str", n |-> 0, s |-> x]
B(b) == [k |-> "bool", n |-> IF b THEN 1 ELSE 0, s |-> ""]
T(m) == [k |-> "ts", n |-> m, s |-> ""]

\* bool(v) of Python: None, 0, False and "" are falsy, a Timestamp is truthy
Truthy(v) ==
    CASE v.k = "none" -> FALSE
      [] v.k = "int" -> v.n # 0
      [] v.k = "bool" -> v.n # 0
      [] v.k = "str" -> v.s # ""
      [] v.k = "ts" -> TRUE

\* pd.isnull(v): None (and NaN, which a table holds for an empty cell)
IsNull(v) == v.k = "none"

\* v == 'literal' of Python for a string literal
EqStr(v, lit) == v.k = "str" /\ v.s = lit

(***************************************************************************)
(* pd.to_datetime and the Timestamp attributes the code reads.  A          *)
(* timestamp is a minute of the year 2013, whose first day is a Tuesday    *)
(* (dayofweek 1, Monday being 0).                                          *)
(***************************************************************************)
MonthStarts == <<0, 31, 59, 90, 120, 151, 181, 212, 243, 273, 304, 334>>

Parseable(v) == v.k = "ts"

TsHour(m) == (m \div 60) % 24
TsDay(m) == m \div (60 * 24)
TsDayOfWeek(m) == (TsDay(m) + 1) % 7
TsMonth(m) == Cardinality({i \in 1..12 : MonthStarts[i] <= TsDay(m)})

(***************************************************************************)
(* ModelPredictor: construction and artifact loading.                      *)
(***************************************************************************)
NoFeatures == <<>>

HardcodedFeatures ==
    << "online_booking", "mobile_site_booking", "vehicle_model_id",
       "travel_type_id", "from_area_id", "to_area_id", "booking_hour",
       "booking_day_of_week", "booking_month", "is_round_trip",
       "channel_mobile", "channel_online", "channel_other", "from_lat",
       "from_long", "to_lat", "to_long", "from_city_id" >>

\* the default list with two names in the other order
DefaultFeaturesSwapped ==
    << "mobile_site_booking", "online_booking", "vehicle_model_id",
       "travel_type_id", "from_area_id", "to_area_id", "booking_hour",
       "booking_day_of_week", "booking_month", "is_round_trip",
       "channel_mobile", "channel_online", "channel_other", "from_lat",
       "from_long", "to_lat", "to_long", "from_city_id" >>

_get_default_features ==
    << "online_booking", "mobile_site_booking", "vehicle_model_id",
       "travel_type_id", "from_area_id", "to_area_id", "booking_hour",
       "booking_day_of_week", "booking_month", "is_round_trip",
       "channel_mobile", "channel_online", "channel_other", "from_lat",
       "from_long", "to_lat", "to_long", "from_city_id" >>

\* self after __init__ set the three attributes to None, before load_model
NewPredictor ==
    [model |-> "None", metadata |-> "None", features |-> "None",
     names |-> NoFeatures]

\* load_model: a missing model file raises FileNotFoundError, a corrupt one
\* makes joblib.load raise, a corrupt sidecar makes json.load raise.  The
\* except clause prints and returns False; whatever was assigned before the
\* raise stays assigned.  The result is self after the call.
load_model(self, mf, df) ==
    IF mf = "missing" THEN self
    ELSE IF mf = "corrupt" THEN self
    ELSE LET s1 == [self EXCEPT !.model = "classifier"] IN
         IF df = "present"
         THEN [s1 EXCEPT !.metadata = "json", !.features = "list",
                         !.names = HardcodedFeatures]
         ELSE IF df = "missing"
         THEN [s1 EXCEPT !.features = "list",
                         !.names = _get_default_features]
         ELSE s1

\* ModelPredictor(): __init__ ignores load_model's return value
ModelPredictor(mf, df) == load_model(NewPredictor, mf, df)

(***************************************************************************)
(* ModelPredictor.preprocess_input.  A booking record is a function whose  *)
(* domain is the set of keys present in the dict; a DataFrame of one row   *)
(* is a function from its column names to values.                          *)
(***************************************************************************)
Range(seq) == {seq[i] : i \in 1..Len(seq)}

\* df[c] = v: overwrites the column, or adds it when it is not there yet
SetCol(df, c, v) == [x \in DOMAIN df \cup {c} |-> IF x = c THEN v ELSE df[x]]

feature_mappings ==
    << "online_booking", "mobile_site_booking", "vehicle_model_id",
       "travel_type_id", "from_area_id", "to_area_id", "from_lat",
       "from_long", "to_lat", "to_long", "from_city_id" >>

\* the loop over feature_mappings.items(), from entry i on
RECURSIVE DirectMappings(_, _, _)
DirectMappings(df, booking_data, i) ==
    IF i > Len(feature_mappings) THEN df
    ELSE LET key == feature_mappings[i]
             next == IF key \in DOMAIN booking_data /\ key \in DOMAIN df
                     THEN SetCol(df, key, booking_data[key])
                     ELSE df
         IN DirectMappings(next, booking_data, i + 1)

\* the day of the week counted from 1 (isoweekday) instead of from 0
TimeFeaturesIsoWeekday(df, booking_time) ==
    SetCol(SetCol(SetCol(df, "booking_hour", I(TsHour(booking_time.n))),
                  "booking_day_of_week", I(TsDayOfWeek(booking_time.n) + 1)),
           "booking_month", I(TsMonth(booking_time.n)))

TimeFeatures(df, booking_time) ==
    SetCol(SetCol(SetCol(df, "booking_hour", I(TsHour(booking_time.n))),
                  "booking_day_of_week", I(TsDayOfWeek(booking_time.n))),
           "booking_month", I(TsMonth(booking_time.n)))

\* the flag copied as it is
RoundTripFeatureRaw(df, booking_data) ==
    IF "is_round_trip" \in DOMAIN booking_data
    THEN SetCol(df, "is_round_trip", booking_data["is_round_trip"])
    ELSE df

RoundTripFeature(df, booking_data) ==
    IF "is_round_trip" \in DOMAIN booking_data
    THEN SetCol(df, "is_round_trip",
                IF Truthy(booking_data["is_round_trip"]) THEN I(1) ELSE I(0))
    ELSE df

\* channel_other set only for the literal 'other'
ChannelFeaturesLiteral(df, booking_data) ==
    IF "booking_channel" \in DOMAIN booking_data
    THEN LET channel == booking_data["booking_channel"] IN
         SetCol(SetCol(SetCol(df,
             "channel_mobile", IF EqStr(channel, "mobile") THEN I(1) ELSE I(0)),
             "channel_online", IF EqStr(channel, "online") THEN I(1) ELSE I(0)),
             "channel_other", IF EqStr(channel, "other") THEN I(1) ELSE I(0))
    ELSE df

ChannelFeatures(df, booking_data) ==
    IF "booking_channel" \in DOMAIN booking_data
    THEN LET channel == booking_data["booking_channel"] IN
         SetCol(SetCol(SetCol(df,
             "channel_mobile", IF EqStr(channel, "mobile") THEN I(1) ELSE I(0)),
             "channel_online", IF EqStr(channel, "online") THEN I(1) ELSE I(0)),
             "channel_other",
             IF ~(EqStr(channel, "mobile") \/ EqStr(channel, "online"))
             THEN I(1) ELSE I(0))
    ELSE df

\* the outcome of preprocess_input: err = "" and the frame, or the exception
preprocess_input(self, booking_data) ==
    IF self.features = "None"
    THEN [err |-> "TypeError: 'NoneType' object is not iterable", df |-> <<>>]
    ELSE LET df0 == [f \in Range(self.names) |-> I(0)]
             hasTime == "booking_created" \in DOMAIN booking_data
                        /\ Truthy(booking_data["booking_created"])
         IN IF hasTime /\ ~Parseable(booking_data["booking_created"])
            THEN [err |-> "ValueError: Unknown datetime string format",
                  df |-> <<>>]
            ELSE LET df1 == IF hasTime
                            THEN TimeFeatures(df0, booking_data["booking_created"])
                            ELSE df0
                     df2 == DirectMappings(df1, booking_data, 1)
                     df3 == RoundTripFeature(df2, booking_data)
                 IN [err |-> "", df |-> ChannelFeatures(df3, booking_data)]

(***************************************************************************)
(* ModelPredictor.predict.  The classifier is opaque: probability is the   *)
(* value predict_proba(df)[0, 1] returned for this call.                   *)
(***************************************************************************)
ProbOne == 10000

\* High confidence up to the Medium boundary
ConfidenceWide(probability) ==
    IF probability < 1500 \/ probability > 9000 THEN "High" ELSE "Medium"

\* the guard inverted: raises when the model is there
ModelIsNoneInverted(self) == self.model # "None"

\* the guard both prediction methods open with: self.model is None
ModelIsNone(self) == self.model = "None"

\* the operating point included in the positive class
PredictionInclusive(probability) == IF probability >= 1090 THEN 1 ELSE 0

Prediction(probability) == IF probability > 1090 THEN 1 ELSE 0

\* the ladder with strict comparisons: each boundary falls to the lower tier
RiskCategoryStrict(probability) ==
    IF probability > 5000 THEN "Critical"
    ELSE IF probability > 3000 THEN "High"
    ELSE IF probability > 1500 THEN "Medium"
    ELSE IF probability > 500 THEN "Low"
    ELSE "Very Low"

RiskCategory(probability) ==
    IF probability >= 5000 THEN "Critical"
    ELSE IF probability >= 3000 THEN "High"
    ELSE IF probability >= 1500 THEN "Medium"
    ELSE IF probability >= 500 THEN "Low"
    ELSE "Very Low"

RiskColor(probability) ==
    IF probability >= 5000 THEN "red"
    ELSE IF probability >= 3000 THEN "orange"
    ELSE IF probability >= 1500 THEN "yellow"
    ELSE "green"

\* the confidence bounds included in the High label
ConfidenceInclusive(probability) ==
    IF probability <= 1000 \/ probability >= 9000 THEN "High" ELSE "Medium"

Confidence(probability) ==
    IF probability < 1000 \/ probability > 9000 THEN "High" ELSE "Medium"

\* the recommendation ladder with strict comparisons
RecommendationStrict(probability, risk_category) ==
    IF probability > 5000
    THEN "Critical risk - Immediate intervention required, contact customer proactively"
    ELSE IF probability > 3000
    THEN "High risk - Consider offering incentives or flexible booking options"
    ELSE IF probability > 1500
    THEN "Medium risk - Send confirmation reminders and monitor closely"
    ELSE IF probability > 500
    THEN "Low risk - Standard monitoring, but keep an eye on booking status"
    ELSE "Very low risk - Standard processing, minimal intervention needed"

_get_recommendation(probability, risk_category) ==
    IF probability >= 5000
    THEN "Critical risk - Immediate intervention required, contact customer proactively"
    ELSE IF probability >= 3000
    THEN "High risk - Consider offering incentives or flexible booking options"
    ELSE IF probability >= 1500
    THEN "Medium risk - Send confirmation reminders and monitor closely"
    ELSE IF probability >= 500
    THEN "Low risk - Standard monitoring, but keep an eye on booking status"
    ELSE "Very low risk - Standard processing, minimal intervention needed"

\* a call that raised: nothing is returned, the exception reaches the caller;
\* trace lists the stages the call entered before it ended
Raised(op, error, trace) ==
    [op |-> op, error |-> error, trace |-> trace, df |-> <<>>,
     probability |-> -1, prediction |-> -1, risk_category |-> "",
     risk_color |-> "", confidence |-> "", recommendation |-> "",
     X |-> <<>>, table |-> <<>>]

predict(self, booking_data, probability) ==
    IF ModelIsNone(self)
    THEN Raised("predict", "ValueError: Model not loaded", <<>>)
    ELSE LET pre == preprocess_input(self, booking_data) IN
         IF pre.err # ""
         THEN Raised("predict", pre.err, <<"preprocess_input">>)
         ELSE [op |-> "predict", error |-> "",
               trace |-> <<"preprocess_input", "predict_proba">>,
               df |-> pre.df,
               probability |-> probability,
               prediction |-> Prediction(probability),
               risk_category |-> RiskCategory(probability),
               risk_color |-> RiskColor(probability),
               confidence |-> Confidence(probability),
               recommendation |->
                   _get_recommendation(probability, RiskCategory(probability)),
               X |-> <<>>, table |-> <<>>]

(***************************************************************************)
(* ModelPredictor.batch_predict.  A table is its index labels, its ordered *)
(* column names and its rows (functions from column name to cell);         *)
(* probabilities is predict_proba(X)[:, 1], one value per row.             *)
(***************************************************************************)
\* X.fillna(0) on one cell
FillNa(v) == IF IsNull(v) THEN I(0) ELSE v

\* the loop over self.features followed by fillna, for one row of df
FeatureRow(self, df, row) ==
    [f \in Range(self.names) |->
        IF f \in Range(df.columns) THEN FillNa(row[f]) ELSE I(0)]

Predictions(probabilities) ==
    [i \in 1..Len(probabilities) |->
        IF probabilities[i] > 1090 THEN 1 ELSE 0]

\* pd.cut(x, bins=[0, 0.15, 0.3, 0.5, 1.0], labels=[...]) on one value: the
\* bins are open on the left and closed on the right, the lowest edge is not
\* included, and a value in no bin becomes NaN
PdCut(x) ==
    IF x > 0 /\ x <= 1500 THEN S("Low")
    ELSE IF x > 1500 /\ x <= 3000 THEN S("Medium")
    ELSE IF x > 3000 /\ x <= 5000 THEN S("High")
    ELSE IF x > 5000 /\ x <= ProbOne THEN S("Critical")
    ELSE NoneV

\* results[c] = values on the column list: an existing column keeps its place
\* the new column put in front of the others
AddColumnFirst(columns, c) ==
    IF c \in Range(columns) THEN columns ELSE <<c>> \o columns

AddColumn(columns, c) ==
    IF c \in Range(columns) THEN columns ELSE Append(columns, c)

\* results = df: the result frame is the caller's frame itself
BatchInputAliased(df, results) == results

\* the caller's frame after a call that returned: results is df.copy(), so
\* the three column assignments do not reach df
BatchInputAfter(df, results) == df

batch_predict(self, df, probabilities) ==
    IF ModelIsNone(self)
    THEN Raised("batch_predict", "ValueError: Model not loaded", <<>>)
    ELSE IF self.features = "None"
    THEN Raised("batch_predict",
                "TypeError: 'NoneType' object is not iterable",
                <<"prepare_features">>)
    ELSE LET n == Len(df.rows)
             X == [index |-> df.index,
                   rows |-> [i \in 1..n |-> FeatureRow(self, df, df.rows[i])]]
             predictions == Predictions(probabilities)
             risk_categories == [i \in 1..n |-> PdCut(probabilities[i])]
             results ==
                 [index |-> df.index,
                  columns |->
                      AddColumn(AddColumn(AddColumn(df.columns,
                          "cancellation_probability"),
                          "high_risk_prediction"),
                          "risk_category"),
                  rows |-> [i \in 1..n |->
                      SetCol(SetCol(SetCol(df.rows[i],
                          "cancellation_probability", I(probabilities[i])),
                          "high_risk_prediction", I(predictions[i])),
                          "risk_category", risk_categories[i])]]
         IN [op |-> "batch_predict", error |-> "",
             trace |-> <<"prepare_features", "predict_proba">>,
             df |-> <<>>, probability |-> -1, prediction |-> -1,
             risk_category |-> "", risk_color |-> "", confidence |-> "",
             recommendation |-> "", X |-> X, table |-> results]

(***************************************************************************)
(* Inputs.                                                                 *)
(***************************************************************************)
\* the values at which some decision of the code changes
Edges == {0, 500, 1000, 1090, 1500, 3000, 5000, 9000, ProbOne}

\* what the classifier may return: each edge and its neighbours on the grid
Probs == {p \in UNION {{e + d : d \in (0 - Near)..Near} : e \in Edges} :
             p >= 0 /\ p <= ProbOne}

\* what the classifier may return for a row of a batch: the edges at which
\* the output of batch_predict or the category of predict changes, and the
\* grid point next to each
BatchProbs ==
    {0, 1, 499, 500, 1090, 1091, 1500, 1501, 3000, 3001, 5000, 5001, ProbOne}

\* the classifier is consulted only by a call that gets as far as
\* predict_proba; a call that raises earlier has no output to choose
Classifies(self) == ~ModelIsNone(self) /\ self.features # "None"

\* 2013-01-01 23:45 (a Tuesday) and 2013-07-14 08:30 (a Sunday)
Timestamps == {T(1425), T(279870)}

RecordKeys ==
    {"booking_created", "booking_channel", "is_round_trip"}
        \cup Range(feature_mappings)

KeyVals(key) ==
    CASE key = "booking_created" ->
             Timestamps \cup {NoneV, S(""), S("not a date")}
      [] key = "booking_channel" ->
             {NoneV, S("mobile"), S("online"), S("phone")}
      [] key = "is_round_trip" -> {NoneV, B(TRUE), B(FALSE)}
      [] OTHER -> {NoneV, I(0), I(15)}

AllVals == UNION {KeyVals(key) : key \in RecordKeys}

\* get_sample_booking_data(), with the first timestamp for datetime.now() and
\* the coordinates in degrees
SampleBooking ==
    [key \in RecordKeys |->
        CASE key = "booking_created" -> T(1425)
          [] key = "online_booking" -> I(1)
          [] key = "mobile_site_booking" -> I(0)
          [] key = "vehicle_model_id" -> I(15)
          [] key = "travel_type_id" -> I(1)
          [] key = "from_area_id" -> I(5)
          [] key = "to_area_id" -> I(12)
          [] key = "from_lat" -> I(13)
          [] key = "from_long" -> I(78)
          [] key = "to_lat" -> I(12)
          [] key = "to_long" -> I(77)
          [] key = "from_city_id" -> I(1)
          [] key = "is_round_trip" -> B(TRUE)
          [] key = "booking_channel" -> S("online")]

\* get_sample_data("high_risk") as the Predict form submits it, booking_date
\* and booking_time combined into booking_created; coordinates in degrees
HighRiskSample ==
    [key \in RecordKeys |->
        CASE key = "booking_created" -> T(1425)
          [] key = "online_booking" -> I(1)
          [] key = "mobile_site_booking" -> I(0)
          [] key = "vehicle_model_id" -> I(89)
          [] key = "travel_type_id" -> I(2)
          [] key = "from_area_id" -> I(1347)
          [] key = "to_area_id" -> I(1192)
          [] key = "from_lat" -> I(13)
          [] key = "from_long" -> I(78)
          [] key = "to_lat" -> I(13)
          [] key = "to_long" -> I(78)
          [] key = "from_city_id" -> I(1)
          [] key = "is_round_trip" -> B(FALSE)
          [] key = "booking_channel" -> S("online")]

\* the sample with values outside the ranges validate_input_data names
OutOfRangeBooking ==
    [SampleBooking EXCEPT !["vehicle_model_id"] = I(-1),
                          !["travel_type_id"] = I(4),
                          !["from_lat"] = I(91),
                          !["to_long"] = I(181)]

\* the dicts a caller may pass: any few keys with any value, and the samples
BookingRecords ==
    {SampleBooking, HighRiskSample, OutOfRangeBooking} \cup
    UNION {{r \in [ks -> AllVals] : \A key \in ks : r[key] \in KeyVals(key)} :
              ks \in {k \in SUBSET RecordKeys : Cardinality(k) <= MaxPresent}}

BatchColumns ==
    {"booking_created", "booking_channel", "vehicle_model_id", "booking_id",
     "risk_category"}

CellVals(c) ==
    CASE c = "booking_created" -> {T(1425), NoneV}
      [] c = "booking_channel" -> {S("online"), S("phone")}
      [] c = "vehicle_model_id" -> {I(15), NoneV}
      [] c = "risk_category" -> {S("Reviewed")}
      [] OTHER -> {I(101), I(102)}

AllCells == UNION {CellVals(c) : c \in BatchColumns}

\* a table with no column, or with one of the columns
ColumnLists == {<<>>} \cup {<<c>> : c \in BatchColumns}

TableRows(cs) ==
    {r \in [Range(cs) -> AllCells] : \A c \in Range(cs) : r[c] \in CellVals(c)}

\* a RangeIndex, or some other labels
Indexes(n) == {[i \in 1..n |-> i - 1], [i \in 1..n |-> 10 * (n - i + 1)]}

Tables ==
    UNION {{[index |-> idx, columns |-> cs, rows |-> rs] :
               idx \in Indexes(n), rs \in [1..n -> TableRows(cs)]} :
           cs \in ColumnLists, n \in 0..MaxRows}

(***************************************************************************)
(* The application session (src/src/app.py) around the predictor.          *)
(***************************************************************************)
NoArg == <<>>
NoResult == Raised("none", "", <<>>)
NoPredictor == NewPredictor

Files == {"present", "missing", "corrupt"}

\* the classifier of a run in which its outputs are chosen call by call
Opaque == <<>>

Init ==
    /\ modelFile \in Files
    /\ metadataFile \in Files
    /\ model_loaded = FALSE
    /\ predictor = NoPredictor
    /\ pc = "idle"
    /\ arg = NoArg
    /\ result = NoResult
    /\ caller = NoArg
    /\ classifier = Opaque
    /\ memo = {}

\* "Load Model" pressed and the import succeeded: the constructor returns
LoadModel ==
    /\ pc = "idle"
    /\ ~model_loaded
    /\ predictor' = ModelPredictor(modelFile, metadataFile)
    /\ model_loaded' = TRUE
    /\ UNCHANGED <<modelFile, metadataFile, pc, arg, result, caller,
                   classifier, memo>>

\* "Load Model" pressed and `from model_utils import ModelPredictor` raised
LoadModelImportError ==
    /\ pc = "idle"
    /\ ~model_loaded
    /\ result' = Raised("load", "ImportError", <<>>)
    /\ pc' = "returned"
    /\ UNCHANGED <<modelFile, metadataFile, model_loaded, predictor, arg,
                   caller, classifier, memo>>

\* predictor.predict(booking_data) with the classifier answering probability:
\* arg is the dict as passed, caller the caller's dict after the call
CallPredict(booking_data, probability) ==
    /\ arg' = booking_data
    /\ caller' = booking_data
    /\ result' = predict(predictor, booking_data, probability)
    /\ pc' = "returned"
    /\ UNCHANGED <<modelFile, metadataFile, model_loaded, predictor,
                   classifier>>

\* predictor.batch_predict(df) with the classifier answering probabilities
CallBatchPredict(df, probabilities) ==
    LET r == batch_predict(predictor, df, probabilities) IN
    /\ arg' = df
    /\ caller' = IF r.error = "" THEN BatchInputAfter(df, r.table) ELSE df
    /\ result' = r
    /\ pc' = "returned"
    /\ UNCHANGED <<modelFile, metadataFile, model_loaded, predictor,
                   classifier>>

Predict ==
    /\ pc = "idle"
    /\ model_loaded
    /\ \E booking_data \in BookingRecords :
          \E probability \in IF Classifies(predictor) THEN Probs ELSE {0} :
             CallPredict(booking_data, probability)
    /\ UNCHANGED memo

BatchPredict ==
    /\ pc = "idle"
    /\ model_loaded
    /\ \E df \in Tables :
          \E probabilities \in
                [1..Len(df.rows) ->
                    IF Classifies(predictor) THEN BatchProbs ELSE {0}] :
             CallBatchPredict(df, probabilities)
    /\ UNCHANGED memo

\* the script run that displayed the outcome ends
Rerun ==
    /\ pc = "returned"
    /\ pc' = "idle"
    /\ arg' = NoArg
    /\ result' = NoResult
    /\ caller' = NoArg
    /\ UNCHANGED <<modelFile, metadataFile, model_loaded, predictor,
                   classifier, memo>>

Next == LoadModel \/ LoadModelImportError \/ Predict \/ BatchPredict \/ Rerun

Spec == Init /\ [][Next]_vars

(***************************************************************************)
(* The same session with a pure classifier: predict_proba is a function of *)
(* the feature row, fixed for the run.  memo keeps every call made so far  *)
(* with what it returned.                                                  *)
(***************************************************************************)
\* the numeric content of a feature row, on which the classifiers depend
RECURSIVE RowSum(_, _, _)
RowSum(row, names, i) ==
    IF i > Len(names) THEN 0
    ELSE (IF row[names[i]].k \in {"int", "bool"} THEN row[names[i]].n ELSE 0)
         + RowSum(row, names, i + 1)

\* predict_proba of a pure classifier on one row
Score(clf, self, row) == clf[RowSum(row, self.names, 1) % 2]

PureClassifiers == [0..1 -> {400, 6000}]

PureRecords ==
    {<<>>, HighRiskSample,
     [k \in {"booking_channel"} |-> S("phone")],
     [k \in {"vehicle_model_id"} |-> NoneV]}

PureTables ==
    {t \in Tables : /\ t.columns = <<"vehicle_model_id">>
                    /\ Len(t.rows) = 2
                    /\ t.index = <<0, 1>>
                    /\ t.rows[1] # t.rows[2]}

InitPure ==
    /\ modelFile \in Files
    /\ metadataFile \in Files
    /\ model_loaded = FALSE
    /\ predictor = NoPredictor
    /\ pc = "idle"
    /\ arg = NoArg
    /\ result = NoResult
    /\ caller = NoArg
    /\ classifier \in PureClassifiers
    /\ memo = {}

PredictPure ==
    /\ pc = "idle"
    /\ model_loaded
    /\ \E booking_data \in PureRecords :
          LET pre == preprocess_input(predictor, booking_data)
              probability == IF Classifies(predictor) /\ pre.err = ""
                             THEN Score(classifier, predictor, pre.df)
                             ELSE 0
          IN /\ CallPredict(booking_data, probability)
             /\ memo' = memo \cup
                    {[op |-> "predict", input |-> booking_data,
                      result |-> predict(predictor, booking_data, probability)]}

BatchPredictPure ==
    /\ pc = "idle"
    /\ model_loaded
    /\ \E df \in PureTables :
          LET probabilities ==
                  [i \in 1..Len(df.rows) |->
                      IF Classifies(predictor)
                      THEN Score(classifier, predictor,
                                 FeatureRow(predictor, df, df.rows[i]))
                      ELSE 0]
          IN /\ CallBatchPredict(df, probabilities)
             /\ memo' = memo \cup
                    {[op |-> "batch_predict", input |-> df,
                      result |-> batch_predict(predictor, df, probabilities)]}

NextPure == LoadModel \/ PredictPure \/ BatchPredictPure \/ Rerun

SpecPure == InitPure /\ [][NextPure]_vars

(***************************************************************************)
(* DataProcessor (src/src/data_processor.py).  A frame is a table with the *)
(* dtype of each column.  Every number of a frame is fixed-point in        *)
(* sixteenths (16 is 1.0): the medians, quartiles and clipping bounds of   *)
(* integer data are multiples of one sixteenth, so the float arithmetic of *)
(* the code is exact on them.                                              *)
(***************************************************************************)
Unit == 16

\* the number x as a cell of a frame
N(x) == I(Unit * x)

\* df[c] as the sequence of its cells
Column(t, c) == [i \in 1..Len(t.rows) |-> t.rows[i][c]]

\* df[c] = values, of the given dtype: replaces the column or appends it
SetColumn(t, c, values, dtype) ==
    [t EXCEPT !.columns = AddColumn(t.columns, c),
              !.rows = [i \in 1..Len(t.rows) |-> SetCol(t.rows[i], c, values[i])],
              !.dtypes = SetCol(t.dtypes, c, dtype)]

\* select_dtypes(include=[np.number]).columns, in column order
NumericCols(t) ==
    SelectSeq(t.columns, LAMBDA c : t.dtypes[c] \in {"int64", "float64"})

\* select_dtypes(include=['object']).columns
ObjectCols(t) == SelectSeq(t.columns, LAMBDA c : t.dtypes[c] = "object")

\* the non-null cells of a column, and the sorted numbers among them
NonNull(col) == SelectSeq(col, LAMBDA v : ~IsNull(v))
Sorted(col) ==
    SortSeq([i \in 1..Len(NonNull(col)) |-> NonNull(col)[i].n],
            LAMBDA a, b : a < b)

\* Series.isnull().sum()
NullCount(col) == Len(col) - Len(NonNull(col))

\* Series.median(): nulls skipped, NaN for a column without a value
Median(col) ==
    LET xs == Sorted(col)
        m == Len(xs)
    IN IF m = 0 THEN NoneV
       ELSE IF m % 2 = 1 THEN I(xs[(m + 1) \div 2])
       ELSE I((xs[m \div 2] + xs[m \div 2 + 1]) \div 2)

\* Series.quantile(k/4) with linear interpolation: nulls skipped, NaN for a
\* column without a value
Quantile(col, k) ==
    LET xs == Sorted(col)
        m == Len(xs)
        pos == k * (m - 1)
        lo == pos \div 4 + 1
        r == pos % 4
        hi == IF r = 0 THEN lo ELSE lo + 1
    IN IF m = 0 THEN NoneV
       ELSE I(xs[lo] + (r * (xs[hi] - xs[lo])) \div 4)

\* Series.fillna(v); filling with NaN leaves the column as it is
FillColumn(col, v) == [i \in 1..Len(col) |-> IF IsNull(col[i]) THEN v ELSE col[i]]

\* the rank of a value in the sort order of strings: timestamps written as
\* ISO strings sort by time and before any word
StringOrder == <<"Low", "Reviewed", "mobile", "not a date", "online",
                 "other", "phone", "unknown">>

Rank(v) ==
    IF v.k = "ts" THEN v.n - 1000000
    ELSE CHOOSE i \in 1..Len(StringOrder) : StringOrder[i] = v.s

\* Series.mode(): the most frequent non-null values, sorted
Count(col, v) == Cardinality({i \in 1..Len(col) : col[i] = v})

Modes(col) ==
    {v \in Range(NonNull(col)) :
        \A w \in Range(NonNull(col)) : Count(col, w) <= Count(col, v)}

\* the last of the modes instead of the first
LastMode(col) ==
    IF Modes(col) = {} THEN S("unknown")
    ELSE CHOOSE v \in Modes(col) : \A w \in Modes(col) : Rank(w) <= Rank(v)

\* mode()[0] if not mode().empty else 'unknown'
FirstMode(col) ==
    IF Modes(col) = {} THEN S("unknown")
    ELSE CHOOSE v \in Modes(col) : \A w \in Modes(col) : Rank(v) <= Rank(w)

\* one entry of cleaning_report['cleaning_steps']
Step(kind, col, val) == [step |-> kind, col |-> col, val |-> val]

\* the cleaning in progress: the frame and the two lists of the report
RECURSIVE FillNumeric(_, _, _)
FillNumeric(st, cols, i) ==
    IF i > Len(cols) THEN st
    ELSE LET col == Column(st.t, cols[i])
             median_val == Median(col)
             next ==
                 IF NullCount(col) > 0
                 THEN [st EXCEPT
                          !.t = SetColumn(st.t, cols[i],
                                          FillColumn(col, median_val),
                                          st.t.dtypes[cols[i]]),
                          !.steps = Append(st.steps,
                                           Step("median", cols[i], median_val))]
                 ELSE st
         IN FillNumeric(next, cols, i + 1)

RECURSIVE FillCategorical(_, _, _)
FillCategorical(st, cols, i) ==
    IF i > Len(cols) THEN st
    ELSE LET col == Column(st.t, cols[i])
             mode_val == FirstMode(col)
             next ==
                 IF NullCount(col) > 0
                 THEN [st EXCEPT
                          !.t = SetColumn(st.t, cols[i],
                                          FillColumn(col, mode_val), "object"),
                          !.steps = Append(st.steps,
                                           Step("mode", cols[i], mode_val))]
                 ELSE st
         IN FillCategorical(next, cols, i + 1)

\* Q1, Q3 and the bounds Q1 - 1.5 * IQR and Q3 + 1.5 * IQR of a column;
\* they are NaN for a column without a value (lower and upper are then 0
\* here and never read)
Bounds(col) ==
    LET Q1 == Quantile(col, 1)
        Q3 == Quantile(col, 3)
        IQR == IF IsNull(Q1) THEN 0 ELSE Q3.n - Q1.n
    IN [Q1 |-> Q1, Q3 |-> Q3,
        lower |-> IF IsNull(Q1) THEN 0 ELSE Q1.n - (3 * IQR) \div 2,
        upper |-> IF IsNull(Q1) THEN 0 ELSE Q3.n + (3 * IQR) \div 2]

\* (v < lower_bound) | (v > upper_bound): comparisons with NaN are False,
\* so a null is never an outlier and a column without a value has none
IsOutlier(v, bounds) ==
    /\ ~IsNull(v)
    /\ ~IsNull(bounds.Q1)
    /\ (v.n < bounds.lower \/ v.n > bounds.upper)

\* the bounds swapped
ClipSwapped(v, lower_bound, upper_bound) ==
    IF IsNull(v) THEN v
    ELSE IF v.n < lower_bound THEN I(upper_bound)
    ELSE IF v.n > upper_bound THEN I(lower_bound)
    ELSE v

\* np.clip on one cell
Clip(v, lower_bound, upper_bound) ==
    IF IsNull(v) THEN v
    ELSE IF v.n < lower_bound THEN I(lower_bound)
    ELSE IF v.n > upper_bound THEN I(upper_bound)
    ELSE v

RECURSIVE ClipOutliers(_, _, _)
ClipOutliers(st, cols, i) ==
    IF i > Len(cols) THEN st
    ELSE LET col == Column(st.t, cols[i])
             bounds == Bounds(col)
             outliers_before ==
                 Cardinality({j \in 1..Len(col) : IsOutlier(col[j], bounds)})
             next ==
                 IF cols[i] # "Car_Cancellation" /\ outliers_before > 0
                 THEN [st EXCEPT
                          !.t = SetColumn(st.t, cols[i],
                                    [j \in 1..Len(col) |->
                                        Clip(col[j], bounds.lower,
                                             bounds.upper)],
                                    "float64"),
                          !.steps = Append(st.steps,
                                        Step("clipped", cols[i],
                                             I(outliers_before)))]
                 ELSE st
         IN ClipOutliers(next, cols, i + 1)

(***************************************************************************)
(* _engineer_features.  It runs on the imputed and clipped frame.          *)
(***************************************************************************)
\* (condition).astype(int)
Flag(b) == IF b THEN N(1) ELSE N(0)

\* pd.to_datetime(..., errors='coerce') on a cell of strings: NaT for a
\* missing cell and for a string that is not a date
Coerce(v) ==
    CASE v.k = "ts" -> v
      [] v.k \in {"str", "none"} -> NoneV

\* Series.dt.hour and the like on one cell: NaN where the cell is NaT
Attr(v, x) == IF IsNull(v) THEN NoneV ELSE N(x)

\* the dtype of a .dt attribute: float64 as soon as a cell is NaT, else the
\* integer dtype of the installed pandas
AttrDType(col, build) ==
    IF \E i \in 1..Len(col) : IsNull(col[i]) THEN "float64" ELSE build.attr

TimeBased(st, build) ==
    IF "booking_created" \notin Range(st.t.columns) THEN st
    ELSE LET created == [k \in 1..Len(st.t.rows) |->
                            Coerce(st.t.rows[k]["booking_created"])]
             hour == [k \in 1..Len(created) |->
                        Attr(created[k], TsHour(created[k].n))]
             dow == [k \in 1..Len(created) |->
                        Attr(created[k], TsDayOfWeek(created[k].n))]
             t1 == SetColumn(st.t, "booking_created", created, "datetime64")
             t2 == SetColumn(t1, "booking_hour", hour, AttrDType(created, build))
             t3 == SetColumn(t2, "booking_day_of_week", dow,
                             AttrDType(created, build))
             t4 == SetColumn(t3, "booking_month",
                             [k \in 1..Len(created) |->
                                 Attr(created[k], TsMonth(created[k].n))],
                             AttrDType(created, build))
             t5 == SetColumn(t4, "is_weekend",
                       [k \in 1..Len(dow) |->
                           LET v == dow[k] IN Flag(~IsNull(v) /\ v.n >= 5 * Unit)],
                       "int64")
             t6 == SetColumn(t5, "is_late_booking",
                       [k \in 1..Len(hour) |->
                           LET v == hour[k] IN Flag(~IsNull(v) /\
                                (v.n <= 6 * Unit \/ v.n >= 22 * Unit))],
                       "int64")
         IN [st EXCEPT !.t = t6,
                       !.features = Append(st.features, "time-based")]

\* df[c] == k for a number k
EqNum(v, k) == ~IsNull(v) /\ v.n = k * Unit

TravelType(st) ==
    IF "travel_type_id" \notin Range(st.t.columns) THEN st
    ELSE LET travel == Column(st.t, "travel_type_id")
             t1 == SetColumn(st.t, "is_business_travel",
                       [k \in 1..Len(travel) |->
                           LET v == travel[k] IN Flag(EqNum(v, 1))], "int64")
             t2 == SetColumn(t1, "is_leisure_travel",
                       [k \in 1..Len(travel) |->
                           LET v == travel[k] IN Flag(EqNum(v, 2))], "int64")
         IN [st EXCEPT !.t = t2,
                       !.features = Append(st.features, "travel type")]

\* (df['booking_channel'] == channel).astype(int)
ChannelDummy(v, channel) == Flag(EqStr(v, channel))

BookingChannel(st) ==
    IF "booking_channel" \notin Range(st.t.columns) THEN st
    ELSE LET col == Column(st.t, "booking_channel")
             t1 == SetColumn(st.t, "channel_mobile",
                       [k \in 1..Len(col) |->
                           LET v == col[k] IN ChannelDummy(v, "mobile")], "int64")
             t2 == SetColumn(t1, "channel_online",
                       [k \in 1..Len(col) |->
                           LET v == col[k] IN ChannelDummy(v, "online")], "int64")
             t3 == SetColumn(t2, "channel_other",
                       [k \in 1..Len(col) |->
                           LET v == col[k] IN ChannelDummy(v, "other")], "int64")
         IN [st EXCEPT !.t = t3,
                       !.features = Append(st.features, "booking channel")]

RoundTrip(st) ==
    IF "travel_type_id" \notin Range(st.t.columns) THEN st
    ELSE [st EXCEPT
             !.t = SetColumn(st.t, "is_round_trip",
                       [k \in 1..Len(Column(st.t, "travel_type_id")) |->
                           LET v == Column(st.t, "travel_type_id")[k] IN Flag(EqNum(v, 2))], "int64"),
             !.features = Append(st.features, "is_round_trip")]

Coordinates == <<"from_lat", "from_long", "to_lat", "to_long">>

\* the haversine distance, in sixteenths of a kilometre, between the points
\* of the modelled trips (degrees in sixteenths): r = 6371
Haversine(lat1, lon1, lat2, lon2) ==
    LET from == <<lat1, lon1>>
        to == <<lat2, lon2>>
        ends == {from, to}
    IN CASE from = to -> 0
         [] ends = {<<207, 1242>>, <<208, 1241>>} -> 155
         [] ends = {<<207, 1242>>, <<197, 1226>>} -> 2062
         [] ends = {<<208, 1241>>, <<197, 1226>>} -> 2036

\* _calculate_distance on the four one-row columns: NaN when a coordinate
\* is NaN
CalculateDistance(row) ==
    IF \E i \in 1..4 : IsNull(row[Coordinates[i]]) THEN NoneV
    ELSE I(Haversine(row["from_lat"].n, row["from_long"].n,
                     row["to_lat"].n, row["to_long"].n))

\* math.radians takes a float: float(Series) raises TypeError unless the
\* Series has exactly one element, a conversion that pandas deprecates and
\* that the installed version may already refuse
Distance(st, build) ==
    IF ~(Range(Coordinates) \subseteq Range(st.t.columns)) THEN st
    ELSE IF Len(st.t.rows) # 1 \/ ~build.single
    THEN [st EXCEPT !.err = "TypeError"]
    ELSE LET trip_distance == <<CalculateDistance(st.t.rows[1])>>
             t1 == SetColumn(st.t, "trip_distance", trip_distance, "float64")
             t2 == SetColumn(t1, "is_long_distance",
                       [k \in 1..Len(trip_distance) |->
                           LET v == trip_distance[k] IN Flag(~IsNull(v) /\ v.n > 50 * Unit)],
                       "int64")
         IN [st EXCEPT !.t = t2,
                       !.features = Append(st.features, "distance")]

_engineer_features(st, build) ==
    Distance(RoundTrip(BookingChannel(TravelType(TimeBased(st, build)))),
             build)

(***************************************************************************)
(* _optimize_dtypes.                                                       *)
(***************************************************************************)
\* the first loop: object columns of fewer than 50 distinct values
Categorise(t) ==
    [t EXCEPT !.dtypes =
        [c \in DOMAIN t.dtypes |->
            IF /\ t.dtypes[c] = "object"
               /\ Cardinality(Range(NonNull(Column(t, c)))) < 50
            THEN "category" ELSE t.dtypes[c]]]

\* the ladder without its tests of the minimum
NarrowByMax(min, max) ==
    IF max < 255 THEN "uint8"
    ELSE IF max < 127 THEN "int8"
    ELSE IF max < 32767 THEN "int16"
    ELSE IF max < 2147483647 THEN "int32"
    ELSE "int64"

\* the ladder of the second loop: the dtype an int64 column is cast to
Narrow(min, max) ==
    IF min >= 0 /\ max < 255 THEN "uint8"
    ELSE IF min >= -128 /\ max < 127 THEN "int8"
    ELSE IF min >= -32768 /\ max < 32767 THEN "int16"
    ELSE IF min >= -2147483647 - 1 /\ max < 2147483647 THEN "int32"
    ELSE "int64"

\* Series.astype(dtype) on one cell: the integer wraps to the width of the
\* dtype (an int32 holds every integer of a frame)
Cast(v, dtype) ==
    LET x == v.n \div Unit
    IN CASE dtype = "uint8" -> N(x % 256)
         [] dtype = "int8" -> N(((x + 128) % 256) - 128)
         [] dtype = "int16" -> N(((x + 32768) % 65536) - 32768)
         [] dtype \in {"int32", "int64"} -> v

RECURSIVE Downcast(_, _, _)
Downcast(t, cols, i) ==
    IF i > Len(cols) THEN t
    ELSE LET col == Column(t, cols[i])
             dtype == Narrow(Sorted(col)[1] \div Unit,
                             Sorted(col)[Len(col)] \div Unit)
         IN Downcast(SetColumn(t, cols[i],
                               [k \in 1..Len(col) |->
                           LET v == col[k] IN Cast(v, dtype)], dtype),
                     cols, i + 1)

\* memory_saved > 0: narrowing integers always saves; what a categorical
\* column saves or costs depends on the strings, so it is left to the run
MemorySaved(before, after, build) ==
    IF \E c \in DOMAIN after.dtypes : after.dtypes[c] = "category"
    THEN build.saved
    ELSE after.dtypes # before.dtypes

_optimize_dtypes(st, build) ==
    LET t == Downcast(Categorise(st.t),
                      SelectSeq(st.t.columns,
                                LAMBDA c : st.t.dtypes[c] = "int64"), 1)
    IN [st EXCEPT
           !.t = t,
           !.steps = IF MemorySaved(st.t, t, build)
                     THEN Append(st.steps, Step("optimized", "", NoneV))
                     ELSE st.steps]

(***************************************************************************)
(* clean_booking_data.  The result keeps the frame as it was after the     *)
(* imputation (line 62), after the outlier step (line 77) and after the    *)
(* feature engineering (line 80) next to the returned frame and report.    *)
(* cleaned_at, the time of the call, is left out of the report.            *)
(***************************************************************************)
Shape(t) == <<Len(t.rows), Len(t.columns)>>

clean_booking_data(df, build) ==
    LET numeric_cols == NumericCols(df)
        start == [t |-> df, steps |-> <<>>, features |-> <<>>, err |-> ""]
        filled == FillCategorical(FillNumeric(start, numeric_cols, 1),
                                  ObjectCols(df), 1)
        clipped == ClipOutliers(filled, numeric_cols, 1)
        engineered == _engineer_features(clipped, build)
        optimized == _optimize_dtypes(engineered, build)
    IN IF engineered.err # ""
       THEN [op |-> "clean_booking_data", error |-> engineered.err,
             table |-> <<>>, report |-> <<>>,
             after_fill |-> filled.t, after_clip |-> clipped.t,
             engineered |-> <<>>]
       ELSE [op |-> "clean_booking_data", error |-> "",
             table |-> optimized.t,
             report |-> [original_shape |-> Shape(df),
                         cleaning_steps |-> optimized.steps,
                         feature_engineering |-> optimized.features,
                         final_shape |-> Shape(optimized.t)],
             after_fill |-> filled.t, after_clip |-> clipped.t,
             engineered |-> engineered.t]

(***************************************************************************)
(* The frames a run cleans: one to MaxCleanRows rows over a few schemas.   *)
(* A column of strings is an object column; a column of numbers is int64,  *)
(* or float64 when it has a missing cell, as read_csv types it; the        *)
(* coordinates are decimal degrees, hence float64.                         *)
(***************************************************************************)
MaxCleanRows == 5
MaxSchemaRows == 3
MaxIdRows == 2

ObjectColumns == {"booking_channel", "booking_created"}

InputDType(c, col) ==
    IF c \in ObjectColumns THEN "object"
    ELSE IF c \in Range(Coordinates) THEN "float64"
    ELSE IF \E i \in 1..Len(col) : IsNull(col[i]) THEN "float64"
    ELSE "int64"

Frame(columns, rows) ==
    [index |-> [i \in 1..Len(rows) |-> i - 1],
     columns |-> columns,
     rows |-> rows,
     dtypes |-> [c \in Range(columns) |->
                    InputDType(c, [i \in 1..Len(rows) |-> rows[i][c]])]]

OneColumn(c, values, most) ==
    [columns |-> <<c>>, rows |-> {[x \in {c} |-> v] : v \in values},
     most |-> most]

Trip(lat1, lon1, lat2, lon2) ==
    [from_lat |-> lat1, from_long |-> lon1, to_lat |-> lat2, to_long |-> lon2]

\* from_area_id has the rows that give a column quartiles with outliers
\* on either side, vehicle_model_id the integers next to the limits of the
\* narrow integer dtypes
CleanSchemas ==
    { OneColumn("from_area_id", {NoneV, N(25), N(35), N(1000)}, MaxCleanRows),
      OneColumn("to_area_id", {N(-1000), N(25), N(35)}, MaxCleanRows),
      OneColumn("Car_Cancellation", {NoneV, N(0), N(1)}, MaxCleanRows),
      OneColumn("booking_channel",
                {NoneV, S("mobile"), S("online"), S("phone")}, MaxSchemaRows),
      OneColumn("booking_created",
                {NoneV, T(1425), T(279870), S("not a date")}, MaxSchemaRows),
      OneColumn("travel_type_id", {NoneV, N(1), N(2), N(3)}, MaxSchemaRows),
      OneColumn("vehicle_model_id",
                {N(-32769), N(-32768), N(-129), N(-128), N(0), N(126), N(127),
                 N(254), N(255), N(32766), N(32767), N(40000)}, MaxIdRows),
      [columns |-> <<"travel_type_id", "is_round_trip">>,
       rows |-> {[travel_type_id |-> N(t), is_round_trip |-> N(r)] :
                    t \in {1, 2}, r \in {0, 1}},
       most |-> MaxSchemaRows],
      [columns |-> Coordinates,
       rows |-> {Trip(I(207), I(1242), I(207), I(1242)),
                 Trip(I(207), I(1242), I(208), I(1241)),
                 Trip(I(207), I(1242), I(197), I(1226)),
                 Trip(NoneV, I(1242), I(197), I(1226))},
       most |-> MaxSchemaRows] }

CleanTables ==
    UNION {{Frame(schema.columns, rows) :
                rows \in UNION {[1..n -> schema.rows] : n \in 1..schema.most}} :
           schema \in CleanSchemas}

\* what the installed libraries decide: the integer dtype of a .dt
\* attribute, whether the categorical columns save memory, and whether a
\* Series of one element still converts to a float
Builds(df) ==
    [attr : IF "booking_created" \in Range(df.columns)
            THEN {"int32", "int64"} ELSE {"int64"},
     saved : IF \E c \in Range(df.columns) : df.dtypes[c] = "object"
             THEN BOOLEAN ELSE {FALSE},
     single : IF Range(Coordinates) \subseteq Range(df.columns)
              THEN BOOLEAN ELSE {TRUE}]

InitClean ==
    /\ modelFile = "missing"
    /\ metadataFile = "missing"
    /\ model_loaded = FALSE
    /\ predictor = NoPredictor
    /\ pc = "idle"
    /\ arg = NoArg
    /\ result = NoResult
    /\ caller = NoArg
    /\ classifier = Opaque
    /\ memo = {}

CleanBookingData ==
    /\ pc = "idle"
    /\ \E df \in CleanTables :
       \E build \in Builds(df) :
          /\ arg' = df
          /\ caller' = df
          /\ result' = clean_booking_data(df, build)
    /\ pc' = "returned"
    /\ UNCHANGED <<modelFile, metadataFile, model_loaded, predictor,
                   classifier, memo>>

\* the caller is done with the result of its call and goes on to the next
CleanAgain ==
    /\ pc = "returned"
    /\ result.op \in {"clean_booking_data", "validate_data_quality",
                      "validate_input_data"}
    /\ pc' = "idle"
    /\ arg' = NoArg
    /\ result' = NoResult
    /\ caller' = NoArg
    /\ UNCHANGED <<modelFile, metadataFile, model_loaded, predictor,
                   classifier, memo>>

NextClean == CleanBookingData \/ CleanAgain

SpecClean == InitClean /\ [][NextClean]_vars

(***************************************************************************)
(* DataProcessor.validate_data_quality.  The fractions are compared as     *)
(* integers: missing / cells > 0.05 is missing * 20 > cells, and           *)
(* duplicates / rows > 0.01 is duplicates * 100 > rows.  memory_usage_mb   *)
(* is left out of the report.                                              *)
(***************************************************************************)
\* df.isnull().sum(): the missing cells of each column
MissingValues(df) ==
    [c \in Range(df.columns) |-> NullCount(Column(df, c))]

RECURSIVE SumOver(_, _)
SumOver(f, cols) ==
    IF cols = {} THEN 0
    ELSE LET c == CHOOSE x \in cols : TRUE
         IN f[c] + SumOver(f, cols \ {c})

\* df.isnull().sum().sum()
TotalMissing(df) == SumOver(MissingValues(df), Range(df.columns))

\* df.duplicated().sum(): the rows equal to an earlier row
DuplicateRows(df) == Len(df.rows) - Cardinality(Range(df.rows))

\* df['Car_Cancellation'].isin([0, 1]).all(): a missing label is not in
\* the list
AllZeroOrOne(col) ==
    \A i \in 1..Len(col) : ~IsNull(col[i]) /\ col[i].n \in {0, Unit}

\* missing_pct > 0.05
HighMissing(df) ==
    TotalMissing(df) * 20 > Len(df.rows) * Len(df.columns)

\* duplicate_pct > 0.01
HighDuplicates(df) == DuplicateRows(df) * 100 > Len(df.rows)

TargetMissing(df) ==
    /\ "Car_Cancellation" \in Range(df.columns)
    /\ NullCount(Column(df, "Car_Cancellation")) > 0

TargetInvalid(df) ==
    /\ "Car_Cancellation" \in Range(df.columns)
    /\ ~AllZeroOrOne(Column(df, "Car_Cancellation"))

validate_data_quality(df) ==
    LET quality_score ==
            100 - (IF HighMissing(df) THEN 20 ELSE 0)
                - (IF HighDuplicates(df) THEN 10 ELSE 0)
                - (IF TargetMissing(df) THEN 30 ELSE 0)
                - (IF TargetInvalid(df) THEN 20 ELSE 0)
        issues ==
            (IF HighMissing(df) THEN <<"High missing data">> ELSE <<>>)
            \o (IF HighDuplicates(df) THEN <<"Duplicate rows found">> ELSE <<>>)
            \o (IF TargetMissing(df)
                THEN <<"Missing values in target variable">> ELSE <<>>)
            \o (IF TargetInvalid(df)
                THEN <<"Invalid values in target variable">> ELSE <<>>)
    IN [op |-> "validate_data_quality", error |-> "",
        report |-> [shape |-> Shape(df),
                    missing_values |-> MissingValues(df),
                    duplicate_rows |-> DuplicateRows(df),
                    data_types |-> df.dtypes,
                    quality_score |-> IF quality_score > 0 THEN quality_score ELSE 0,
                    issues |-> issues]]

(***************************************************************************)
(* The frames a run validates: a column of up to MaxQualityRows cells, the *)
(* equal cells next to each other, so that the fractions reach both sides  *)
(* of the 5% threshold; and two-column frames of a few rows.               *)
(***************************************************************************)
MaxQualityRows == 20
MaxPairRows == 2

Copies(c, v, k) == [i \in 1..k |-> [x \in {c} |-> v]]

TargetFrames ==
    {Frame(<<"Car_Cancellation">>,
           Copies("Car_Cancellation", N(0), q[1])
           \o Copies("Car_Cancellation", N(1), q[2])
           \o Copies("Car_Cancellation", N(2), q[3])
           \o Copies("Car_Cancellation", NoneV, q[4])) :
        q \in {q \in (0..MaxQualityRows) \X (0..2) \X (0..1) \X (0..2) :
                  q[1] + q[2] + q[3] + q[4] \in 1..MaxQualityRows}}

AreaFrames ==
    {Frame(<<"from_area_id">>,
           Copies("from_area_id", N(5), q[1])
           \o Copies("from_area_id", N(7), q[2])
           \o Copies("from_area_id", NoneV, q[3])) :
        q \in {q \in (0..MaxQualityRows) \X (0..1) \X (0..2) :
                  q[1] + q[2] + q[3] \in 1..MaxQualityRows}}

PairFrames ==
    {Frame(<<"from_area_id", "Car_Cancellation">>, rows) :
        rows \in UNION {[1..n -> [from_area_id : {N(5), NoneV},
                                  Car_Cancellation : {N(0), N(1), N(2), NoneV}]] :
                           n \in 1..MaxPairRows}}

QualityFrames == TargetFrames \cup AreaFrames \cup PairFrames

ValidateDataQuality ==
    /\ pc = "idle"
    /\ \E df \in QualityFrames :
          /\ arg' = df
          /\ caller' = df
          /\ result' = validate_data_quality(df)
    /\ pc' = "returned"
    /\ UNCHANGED <<modelFile, metadataFile, model_loaded, predictor,
                   classifier, memo>>

NextQuality == ValidateDataQuality \/ CleanAgain

SpecQuality == InitClean /\ [][NextQuality]_vars

(***************************************************************************)
(* validate_input_data (src/src/model_utils.py).  Ordering a value that is *)
(* not a number against a number (None < 0) raises TypeError.              *)
(***************************************************************************)
required_field_list ==
    <<"vehicle_model_id", "travel_type_id", "from_area_id", "to_area_id">>

IsNumber(v) == v.k \in {"int", "bool"}

\* the required fields that are absent or None, in the order of the list
MissingRequired(data) ==
    SelectSeq(required_field_list,
              LAMBDA field : field \notin DOMAIN data \/ IsNull(data[field]))

\* the comparisons the function evaluates: data[key] < lo or data[key] > hi
\* behind `data[key] and`, and data['vehicle_model_id'] < 0 unguarded
Ordered(data) ==
    (IF "vehicle_model_id" \in DOMAIN data
     THEN {data["vehicle_model_id"]} ELSE {})
    \cup {data[key] : key \in {k \in {"from_lat", "from_long"} \cap DOMAIN data :
                                  Truthy(data[k])}}

\* data[key] and (data[key] < -limit or data[key] > limit)
OutOfRange(data, key, limit) ==
    /\ key \in DOMAIN data
    /\ Truthy(data[key])
    /\ (data[key].n < -limit \/ data[key].n > limit)

validate_input_data(data) ==
    LET errors ==
            [i \in 1..Len(MissingRequired(data)) |->
                <<"Missing required field", MissingRequired(data)[i]>>]
            \o (IF "vehicle_model_id" \in DOMAIN data
                   /\ data["vehicle_model_id"].n < 0
                THEN <<(<<"Vehicle model ID must be positive", "">>)>>
                ELSE <<>>)
            \o (IF "travel_type_id" \in DOMAIN data
                   /\ ~(IsNumber(data["travel_type_id"])
                        /\ data["travel_type_id"].n \in {1, 2, 3})
                THEN <<(<<"Travel type ID must be 1 (Business), 2 (Leisure), or 3 (Other)", "">>)>>
                ELSE <<>>)
            \o (IF OutOfRange(data, "from_lat", 90)
                THEN <<(<<"Latitude must be between -90 and 90", "">>)>>
                ELSE <<>>)
            \o (IF OutOfRange(data, "from_long", 180)
                THEN <<(<<"Longitude must be between -180 and 180", "">>)>>
                ELSE <<>>)
    IN IF \E v \in Ordered(data) : ~IsNumber(v)
       THEN [op |-> "validate_input_data", error |-> "TypeError",
             is_valid |-> FALSE, errors |-> <<>>]
       ELSE [op |-> "validate_input_data", error |-> "",
             is_valid |-> Len(errors) = 0, errors |-> errors]

\* the records a caller validates: each key absent or with one of its values
ValidatedKeys ==
    <<"vehicle_model_id", "travel_type_id", "from_area_id", "to_area_id",
      "from_lat", "from_long", "to_lat", "to_long">>

Absent == [k |-> "absent", n |-> 0, s |-> ""]

ValidatedVals(key) ==
    CASE key = "vehicle_model_id" -> {Absent, NoneV, I(-1), I(15)}
      [] key = "travel_type_id" -> {Absent, NoneV, I(0), I(1), I(3), I(4)}
      [] key = "from_area_id" -> {Absent, NoneV, I(5)}
      [] key = "to_area_id" -> {Absent, I(12)}
      [] key = "from_lat" -> {Absent, NoneV, I(-91), I(-90), I(0), I(90), I(91)}
      [] key = "from_long" -> {Absent, I(-181), I(-180), I(180), I(181)}
      [] key = "to_lat" -> {Absent, I(91)}
      [] key = "to_long" -> {Absent, I(181)}

ValidatedRecords ==
    {[key \in {ValidatedKeys[i] : i \in {j \in 1..8 : choice[j] # Absent}} |->
         choice[CHOOSE i \in 1..8 : ValidatedKeys[i] = key]] :
        choice \in ValidatedVals(ValidatedKeys[1]) \X ValidatedVals(ValidatedKeys[2])
                   \X ValidatedVals(ValidatedKeys[3]) \X ValidatedVals(ValidatedKeys[4])
                   \X ValidatedVals(ValidatedKeys[5]) \X ValidatedVals(ValidatedKeys[6])
                   \X ValidatedVals(ValidatedKeys[7]) \X ValidatedVals(ValidatedKeys[8])}

ValidateInputData ==
    /\ pc = "idle"
    /\ \E data \in ValidatedRecords :
          /\ arg' = data
          /\ caller' = data
          /\ result' = validate_input_data(data)
    /\ pc' = "returned"
    /\ UNCHANGED <<modelFile, metadataFile, model_loaded, predictor,
                   classifier, memo>>

NextValidate == ValidateInputData \/ CleanAgain

SpecValidate == InitClean /\ [][NextValidate]_vars

(***************************************************************************)
(* Properties.                                                             *)
(***************************************************************************)
\* predict returned a result (it did not raise)
Predicted == pc = "returned" /\ result.op = "predict" /\ result.error = ""

\* batch_predict returned a table (it did not raise)
BatchPredicted ==
    pc = "returned" /\ result.op = "batch_predict" /\ result.error = ""

\* the probability batch_predict wrote into row i of its result
RowProb(i) == result.table.rows[i]["cancellation_probability"].n

\* required_fields of validate_input_data; every other key is optional
required_fields ==
    {"vehicle_model_id", "travel_type_id", "from_area_id", "to_area_id"}

ChannelColumns == {"channel_mobile", "channel_online", "channel_other"}

\* C1: for every probability p in [0,1] predict assigns exactly one risk
\* category, the one of the fixed intervals [0,.05) Very Low, [.05,.15) Low,
\* [.15,.30) Medium, [.30,.50) High, [.50,1] Critical; each lower boundary
\* belongs to the higher-risk tier.
C1_CategoryIntervals ==
    Predicted =>
        LET p == result.probability
            c == result.risk_category
        IN /\ c \in {"Very Low", "Low", "Medium", "High", "Critical"}
           /\ (c = "Very Low") <=> (0 <= p /\ p < 500)
           /\ (c = "Low") <=> (500 <= p /\ p < 1500)
           /\ (c = "Medium") <=> (1500 <= p /\ p < 3000)
           /\ (c = "High") <=> (3000 <= p /\ p < 5000)
           /\ (c = "Critical") <=> (5000 <= p /\ p <= ProbOne)

\* predict scored a record exactly 0.50 and called it Critical
C1_Witness ==
    Predicted /\ result.probability = 5000 /\ result.risk_category = "Critical"

\* C2: in predict and in every row of batch_predict the binary decision flag
\* is 1 if and only if the probability is strictly greater than 0.109
\* (0.109 gives 0, 0.1091 gives 1), whatever the risk category.
C2_DecisionThreshold ==
    /\ Predicted =>
          /\ result.prediction \in {0, 1}
          /\ (result.prediction = 1) <=> (result.probability > 1090)
    /\ BatchPredicted =>
          \A i \in 1..Len(result.table.rows) :
             LET flag == result.table.rows[i]["high_risk_prediction"] IN
             /\ flag \in {I(0), I(1)}
             /\ (flag = I(1)) <=> (RowProb(i) > 1090)

\* a batch whose rows were scored 0.109 and 0.1091, both of category Low,
\* got the flags 0 and 1
C2_Witness ==
    /\ BatchPredicted
    /\ Len(result.table.rows) = 2
    /\ RowProb(1) = 1090
    /\ result.table.rows[1]["high_risk_prediction"] = I(0)
    /\ RowProb(2) = 1091
    /\ result.table.rows[2]["high_risk_prediction"] = I(1)
    /\ result.table.rows[1]["risk_category"] = result.table.rows[2]["risk_category"]

\* C3: batch_predict on a table of N rows returns exactly N rows in the
\* original order and index, and every returned row holds a non-null value
\* in cancellation_probability, high_risk_prediction and risk_category, for
\* every probability in [0,1] including 0 and values below 0.05.
C3_BatchRowsPopulated ==
    BatchPredicted =>
        /\ Len(result.table.rows) = Len(arg.rows)
        /\ result.table.index = arg.index
        /\ \A i \in 1..Len(result.table.rows) :
              \A c \in {"cancellation_probability", "high_risk_prediction",
                         "risk_category"} :
                 /\ c \in DOMAIN result.table.rows[i]
                 /\ ~IsNull(result.table.rows[i][c])

\* C4: for every probability p the risk_category batch_predict writes for a
\* row scored p equals the risk category predict returns for a record
\* scored p.
C4_BatchCategoryAsPredict ==
    BatchPredicted =>
        \A i \in 1..Len(result.table.rows) :
           result.table.rows[i]["risk_category"] = S(RiskCategory(RowProb(i)))

\* C5: preprocess_input on a record lacking every optional field (the empty
\* record included) yields a vector that is 0 everywhere except for the
\* three channel columns (and the required fields the record carries), and
\* the three channel columns sum to exactly 1.
C5_ChannelOneHotByDefault ==
    (Predicted /\ DOMAIN arg \subseteq required_fields) =>
        /\ \A f \in DOMAIN result.df \ (ChannelColumns \cup DOMAIN arg) :
              result.df[f] = I(0)
        /\ result.df["channel_mobile"].n + result.df["channel_online"].n
              + result.df["channel_other"].n = 1

\* C6: for every booking record, whatever keys it has and also when a key
\* carries None, the vector built by preprocess_input has every name of the
\* feature list and no null entry.
C6_NoNullFeature ==
    Predicted =>
        /\ Range(predictor.names) \subseteq DOMAIN result.df
        /\ \A f \in DOMAIN result.df : ~IsNull(result.df[f])

\* C7: the feature row batch_predict passes to the classifier for a one-row
\* table holding the fields of a record r (none of them null) equals the
\* vector preprocess_input builds for r, derived time features and channel
\* indicators included.
C7_BatchRowAsPreprocess ==
    (/\ BatchPredicted
     /\ Len(arg.rows) = 1
     /\ \A c \in DOMAIN arg.rows[1] : ~IsNull(arg.rows[1][c])) =>
        LET pre == preprocess_input(predictor, arg.rows[1]) IN
        /\ pre.err = ""
        /\ result.X.rows[1] = pre.df

\* C8: whenever the model is None, every call of predict and of
\* batch_predict fails with the model-not-loaded error before any feature
\* building or classifier invocation, and carries no probability.
C8_FailFastWithoutModel ==
    (/\ pc = "returned"
     /\ result.op \in {"predict", "batch_predict"}
     /\ predictor.model = "None") =>
        /\ result.error = "ValueError: Model not loaded"
        /\ result.trace = <<>>
        /\ result.probability = -1

\* predict was called on a predictor built without its model file
C8_Witness ==
    /\ pc = "returned"
    /\ result.op = "predict"
    /\ predictor.model = "None"
    /\ DOMAIN arg # {}
    /\ result.error = "ValueError: Model not loaded"

\* C9: constructing ModelPredictor with an unloadable artifact does not
\* complete as a success: the application never has model_loaded = True
\* while it holds a predictor whose model is not loaded.
C9_LoadFailureIsFatal ==
    model_loaded => predictor.model # "None"

\* C10: the confidence label of predict is High if and only if the
\* probability is strictly below 0.10 or strictly above 0.90, and Medium
\* otherwise (0.10 and 0.90 give Medium).
C10_ConfidenceLabel ==
    Predicted =>
        LET p == result.probability IN
        /\ (result.confidence = "High") <=> (p < 1000 \/ p > 9000)
        /\ (result.confidence = "Medium") <=> (1000 <= p /\ p <= 9000)

\* predict scored a record exactly 0.90 and labelled it Medium
C10_Witness ==
    Predicted /\ result.probability = 9000 /\ result.confidence = "Medium"

\* predict got past the model guard and the feature list
PredictCalled ==
    pc = "returned" /\ result.op = "predict" /\ Classifies(predictor)

\* the record carries a booking_created that pd.to_datetime cannot parse
MalformedTimestamp(booking_data) ==
    /\ "booking_created" \in DOMAIN booking_data
    /\ booking_data["booking_created"].k = "str"
    /\ booking_data["booking_created"].s # ""

AddedColumns ==
    <<"cancellation_probability", "high_risk_prediction", "risk_category">>

\* C11: for every probability the recommendation returned by predict belongs
\* to the tier of the returned risk category (>=0.50 Critical, >=0.30 High,
\* >=0.15 Medium, >=0.05 Low, else Very Low): the two never disagree.
C11_RecommendationTier ==
    Predicted =>
        LET c == result.risk_category
            r == result.recommendation
        IN /\ (c = "Critical") <=>
                (r = "Critical risk - Immediate intervention required, contact customer proactively")
           /\ (c = "High") <=>
                (r = "High risk - Consider offering incentives or flexible booking options")
           /\ (c = "Medium") <=>
                (r = "Medium risk - Send confirmation reminders and monitor closely")
           /\ (c = "Low") <=>
                (r = "Low risk - Standard monitoring, but keep an eye on booking status")
           /\ (c = "Very Low") <=>
                (r = "Very low risk - Standard processing, minimal intervention needed")

\* predict scored a record exactly 0.30: category High, recommendation High
C11_Witness ==
    /\ Predicted
    /\ result.probability = 3000
    /\ result.risk_category = "High"
    /\ result.recommendation =
          "High risk - Consider offering incentives or flexible booking options"

\* C12: when the record carries booking_channel, preprocess_input sets
\* exactly one of channel_mobile, channel_online, channel_other to 1 and the
\* other two to 0: 'mobile' sets channel_mobile, 'online' channel_online and
\* every other value (such as 'phone') channel_other, without an error.
C12_ChannelOneHot ==
    (/\ PredictCalled
     /\ "booking_channel" \in DOMAIN arg
     /\ ~MalformedTimestamp(arg)) =>
        /\ result.error = ""
        /\ LET channel == arg["booking_channel"]
               one == IF EqStr(channel, "mobile") THEN "channel_mobile"
                      ELSE IF EqStr(channel, "online") THEN "channel_online"
                      ELSE "channel_other"
           IN \A c \in ChannelColumns :
                 result.df[c] = IF c = one THEN I(1) ELSE I(0)

\* a record whose channel is 'phone' was given channel_other = 1
C12_Witness ==
    /\ Predicted
    /\ "booking_channel" \in DOMAIN arg
    /\ arg["booking_channel"] = S("phone")
    /\ result.df["channel_other"] = I(1)

\* C13: a malformed booking_created never makes feature building or
\* prediction fail: preprocess_input treats it as missing and leaves
\* booking_hour, booking_day_of_week and booking_month at 0.
C13_MalformedTimestampAbsorbed ==
    (PredictCalled /\ MalformedTimestamp(arg)) =>
        /\ result.error = ""
        /\ \A c \in {"booking_hour", "booking_day_of_week", "booking_month"} :
              result.df[c] = I(0)

\* C14: batch_predict called with an empty table fails with an input-shape
\* error raised by the service itself, and does not pass the input on to
\* the classifier.
C14_EmptyBatchRejected ==
    (/\ pc = "returned"
     /\ result.op = "batch_predict"
     /\ Classifies(predictor)
     /\ Len(arg.rows) = 0) =>
        /\ result.error # ""
        /\ \A i \in 1..Len(result.trace) : result.trace[i] # "predict_proba"

\* C15 as stated: the result table of batch_predict contains every column
\* of the input table with every cell unchanged, plus exactly the three
\* added columns.
C15_InputColumnsPreserved ==
    BatchPredicted =>
        /\ \A c \in Range(arg.columns) :
              /\ c \in Range(result.table.columns)
              /\ \A i \in 1..Len(arg.rows) :
                    result.table.rows[i][c] = arg.rows[i][c]
        /\ Range(result.table.columns) \ Range(arg.columns)
              = Range(AddedColumns)

\* C15: for an input table that has none of the three column names, the
\* result table is the input columns in their order, every cell unchanged,
\* followed by exactly cancellation_probability, high_risk_prediction and
\* risk_category; feature columns missing from the input are filled with 0
\* in the classifier input only.
C15_InputColumnsPreservedUnlessNamed ==
    (BatchPredicted /\ Range(arg.columns) \cap Range(AddedColumns) = {}) =>
        /\ result.table.columns = arg.columns \o AddedColumns
        /\ \A i \in 1..Len(arg.rows) :
              /\ DOMAIN result.table.rows[i] = Range(result.table.columns)
              /\ \A c \in Range(arg.columns) :
                    result.table.rows[i][c] = arg.rows[i][c]
              /\ \A f \in Range(predictor.names) \ Range(arg.columns) :
                    result.X.rows[i][f] = I(0)

\* a two-row table with the one column booking_id came back with its ids
C15_Witness ==
    /\ BatchPredicted
    /\ arg.columns = <<"booking_id">>
    /\ Len(arg.rows) = 2
    /\ result.table.rows[2]["booking_id"] = arg.rows[2]["booking_id"]
    /\ Len(result.table.columns) = 4

\* C16: with the metadata sidecar absent the predictor falls back to a
\* hardcoded list of exactly 18 names, identical in names and order to the
\* list it uses when the metadata is present.
C16_FallbackFeatureList ==
    (model_loaded /\ modelFile = "present" /\ metadataFile = "missing") =>
        /\ predictor.features = "list"
        /\ Len(predictor.names) = 18
        /\ Cardinality(Range(predictor.names)) = 18
        /\ predictor.names = ModelPredictor("present", "present").names

\* a predictor was built from a model file without its sidecar
C16_Witness ==
    /\ model_loaded
    /\ modelFile = "present"
    /\ metadataFile = "missing"
    /\ predictor.model = "classifier"
    /\ predictor.metadata = "None"

CleanReturned ==
    pc = "returned" /\ result.op = "clean_booking_data" /\ result.error = ""

\* the number of a frame as the plain Python number of a booking record
Unscaled(v) == IF v.k = "int" THEN I(v.n \div Unit) ELSE v

\* C18: clean_booking_data never drops rows: the cleaned table has as many
\* rows as the input, and in every numeric column other than Car_Cancellation
\* the outlier step replaces a value above Q3 + 1.5*IQR by that bound and a
\* value below Q1 - 1.5*IQR by that bound, while values inside the bounds,
\* missing values and the target column are left as the imputation made them;
\* the returned frame carries these values (is_round_trip, which feature
\* engineering re-derives, aside).
C18_OutliersClipped ==
    CleanReturned =>
        /\ Len(result.table.rows) = Len(arg.rows)
        /\ \A c \in Range(NumericCols(arg)) :
              LET before == Column(result.after_fill, c)
                  after == Column(result.after_clip, c)
                  bounds == Bounds(before)
              IN \A i \in 1..Len(before) :
                    /\ IF c = "Car_Cancellation" \/ IsNull(before[i])
                       THEN after[i] = before[i]
                       ELSE /\ before[i].n > bounds.upper
                                => after[i] = I(bounds.upper)
                            /\ before[i].n < bounds.lower
                                => after[i] = I(bounds.lower)
                            /\ (before[i].n >= bounds.lower
                                /\ before[i].n <= bounds.upper)
                                => after[i] = before[i]
                    /\ c # "is_round_trip" => result.table.rows[i][c] = after[i]

\* a five-row column with bounds [10, 50] whose value 1000 became exactly 50
C18_Witness ==
    /\ CleanReturned
    /\ Len(result.table.rows) = 5
    /\ \E c \in Range(NumericCols(arg)) :
          LET before == Column(result.after_fill, c)
          IN /\ Bounds(before).lower = 10 * Unit
             /\ Bounds(before).upper = 50 * Unit
             /\ \E i \in 1..Len(before) :
                   /\ before[i] = N(1000)
                   /\ result.table.rows[i][c] = N(50)

\* the cells of an imputed column and its report entry, for a column with a
\* missing cell
ImputedWith(c, v, kind) ==
    /\ \A i \in 1..Len(arg.rows) :
          IsNull(arg.rows[i][c]) => result.after_fill.rows[i][c] = v
    /\ Step(kind, c, v) \in Range(result.report.cleaning_steps)

HasMissing(c) == \E i \in 1..Len(arg.rows) : IsNull(arg.rows[i][c])

\* v is the first of the most frequent values of the column
IsFirstMode(col, v) ==
    /\ v \in Modes(col)
    /\ \A w \in Modes(col) : Rank(v) <= Rank(w)

\* C19 as stated: every missing value of a numeric column is replaced by the
\* column's median and every missing value of a categorical column by the
\* column's first mode, and the imputed value is an entry of cleaning_steps.
C19_MissingImputed ==
    CleanReturned =>
        \A c \in Range(arg.columns) :
            HasMissing(c) =>
                IF arg.dtypes[c] = "object"
                THEN \E v \in Range(Column(arg, c)) :
                        IsFirstMode(Column(arg, c), v) /\ ImputedWith(c, v, "mode")
                ELSE ImputedWith(c, Median(Column(arg, c)), "median")

\* C19 amended: as C19, except that a categorical column without any value
\* has no mode and is filled with 'unknown', which is the value recorded.
C19_MissingImputedOrUnknown ==
    CleanReturned =>
        \A c \in Range(arg.columns) :
            HasMissing(c) =>
                IF arg.dtypes[c] # "object"
                THEN ImputedWith(c, Median(Column(arg, c)), "median")
                ELSE IF Modes(Column(arg, c)) = {}
                THEN ImputedWith(c, S("unknown"), "mode")
                ELSE \E v \in Range(Column(arg, c)) :
                        IsFirstMode(Column(arg, c), v) /\ ImputedWith(c, v, "mode")

\* a categorical column with a missing cell and two tied modes was imputed
C19_Witness ==
    /\ CleanReturned
    /\ \E c \in Range(arg.columns) :
          /\ arg.dtypes[c] = "object"
          /\ HasMissing(c)
          /\ Cardinality(Modes(Column(arg, c))) >= 2
          /\ Step("mode", c, FirstMode(Column(arg, c)))
                \in Range(result.report.cleaning_steps)

SharedFeatures ==
    {"channel_mobile", "channel_online", "channel_other", "is_round_trip",
     "booking_hour", "booking_day_of_week", "booking_month"}

\* the booking of row i of the cleaned input, as a record for
\* preprocess_input
BookingOfRow(i) ==
    [c \in DOMAIN arg.rows[i] \cap
              {"booking_created", "booking_channel", "is_round_trip",
               "travel_type_id"} |-> Unscaled(arg.rows[i][c])]

\* C20: for the same booking, the channel, round-trip and time features that
\* _engineer_features derives equal those preprocess_input derives, for every
\* channel value and every round-trip/travel-type combination (rows with a
\* missing or unparseable cell aside; is_round_trip compared where the
\* booking has a round-trip flag).
C20_OfflineAsOnline ==
    CleanReturned =>
        \A i \in 1..Len(arg.rows) :
            LET booking == BookingOfRow(i)
                online == preprocess_input(ModelPredictor("present", "present"),
                                           booking)
                offline == result.table.rows[i]
            IN (\A c \in DOMAIN booking :
                    /\ ~IsNull(booking[c])
                    /\ c = "booking_created" => Parseable(booking[c]))
               => /\ online.err = ""
                  /\ \A f \in SharedFeatures \cap DOMAIN offline :
                        (f = "is_round_trip" => f \in DOMAIN booking)
                        => offline[f] = N(online.df[f].n)

\* the target column has a label, not missing, that is neither 0 nor 1
TargetValueOutside(df) ==
    /\ "Car_Cancellation" \in Range(df.columns)
    /\ \E i \in 1..Len(df.rows) :
          /\ ~IsNull(df.rows[i]["Car_Cancellation"])
          /\ df.rows[i]["Car_Cancellation"].n \notin {0, Unit}

\* C21: the quality score is 100 minus 20 if more than 5% of the cells are
\* missing, minus 10 if more than 1% of the rows are duplicates, minus 30 if
\* the target column has missing labels, minus 20 if the target column has a
\* value outside {0, 1}, each deduction on its own condition, and the score
\* lies in 0..100.
C21_QualityScore ==
    (pc = "returned" /\ result.op = "validate_data_quality") =>
        /\ result.report.quality_score =
              100 - (IF TotalMissing(arg) * 20 > Len(arg.rows) * Len(arg.columns)
                     THEN 20 ELSE 0)
                  - (IF DuplicateRows(arg) * 100 > Len(arg.rows) THEN 10 ELSE 0)
                  - (IF TargetMissing(arg) THEN 30 ELSE 0)
                  - (IF TargetValueOutside(arg) THEN 20 ELSE 0)
        /\ result.report.quality_score \in 0..100

\* the integers a narrow dtype holds (int32 and int64 hold every integer of
\* a frame)
Holds(dtype, x) ==
    CASE dtype = "uint8" -> x \in 0..255
      [] dtype = "int8" -> x \in -128..127
      [] dtype = "int16" -> x \in -32768..32767
      [] dtype \in {"int32", "int64"} -> TRUE

ValidateCalled == pc = "returned" /\ result.op = "validate_input_data"

\* the record has a present coordinate outside its range
CoordinateOutside(data) ==
    \/ \E key \in {"from_lat", "to_lat"} \cap DOMAIN data :
          IsNumber(data[key]) /\ (data[key].n < -90 \/ data[key].n > 90)
    \/ \E key \in {"from_long", "to_long"} \cap DOMAIN data :
          IsNumber(data[key]) /\ (data[key].n < -180 \/ data[key].n > 180)

\* C23: validate_input_data rejects, with is_valid = False and an error
\* message, every record with a travel_type_id outside {1,2,3} or a present
\* latitude (origin or destination) outside [-90,90] or a present longitude
\* (origin or destination) outside [-180,180].
C23_BoundaryRejects ==
    (/\ ValidateCalled
     /\ result.error = ""
     /\ \/ ("travel_type_id" \in DOMAIN arg
             /\ IsNumber(arg["travel_type_id"])
             /\ arg["travel_type_id"].n \notin {1, 2, 3})
        \/ CoordinateOutside(arg))
    => (~result.is_valid /\ Len(result.errors) > 0)

\* C28: validate_input_data returns (is_valid, errors) for every record
\* without raising, is_valid is true exactly when errors is empty, and every
\* required field that is absent or None gives a 'Missing required field'
\* error.
C28_ValidationTotal ==
    ValidateCalled =>
        /\ result.error = ""
        /\ result.is_valid <=> (Len(result.errors) = 0)
        /\ \A field \in required_fields :
              (field \notin DOMAIN arg \/ IsNull(arg[field]))
              => <<"Missing required field", field>> \in Range(result.errors)

\* C24: preprocess_input copies each directly mapped field unchanged into
\* the feature of the same name when the key is present and leaves 0 when it
\* is absent, checks no range (a record with values out of range is scored),
\* and sets is_round_trip to 1 for a truthy flag and 0 otherwise.
C24_DirectCopy ==
    (PredictCalled /\ ~MalformedTimestamp(arg)) =>
        /\ result.error = ""
        /\ \A key \in Range(feature_mappings) :
              result.df[key] = IF key \in DOMAIN arg THEN arg[key] ELSE I(0)
        /\ result.df["is_round_trip"] =
              IF "is_round_trip" \in DOMAIN arg /\ Truthy(arg["is_round_trip"])
              THEN I(1) ELSE I(0)

\* a record with travel type 4 and latitude 91 was scored, its values copied
\* and its round-trip flag True turned into 1
C24_Witness ==
    /\ Predicted
    /\ arg = OutOfRangeBooking
    /\ result.df["travel_type_id"] = I(4)
    /\ result.df["from_lat"] = I(91)
    /\ result.df["is_round_trip"] = I(1)

\* C25: with a booking_created timestamp preprocess_input sets booking_hour
\* (0..23), booking_day_of_week (0..6, Monday 0) and booking_month (1..12)
\* from it, 23:45 giving hour 23; with the key absent or its value empty all
\* three are 0 and nothing is raised.
C25_TimeFeatures ==
    (PredictCalled /\ ~MalformedTimestamp(arg)) =>
        /\ result.error = ""
        /\ IF "booking_created" \in DOMAIN arg /\ arg["booking_created"].k = "ts"
           THEN LET m == arg["booking_created"].n
                IN /\ result.df["booking_hour"] = I((m \div 60) % 24)
                   /\ result.df["booking_day_of_week"] = I((m \div 1440 + 1) % 7)
                   /\ result.df["booking_hour"].n \in 0..23
                   /\ result.df["booking_day_of_week"].n \in 0..6
                   /\ result.df["booking_month"].n \in 1..12
                   /\ m = 1425 => result.df["booking_month"] = I(1)
                   /\ m = 279870 => result.df["booking_month"] = I(7)
           ELSE /\ result.df["booking_hour"] = I(0)
                /\ result.df["booking_day_of_week"] = I(0)
                /\ result.df["booking_month"] = I(0)

\* a booking created at 23:45 was given booking_hour 23
C25_Witness ==
    /\ Predicted
    /\ "booking_created" \in DOMAIN arg
    /\ arg["booking_created"] = T(1425)
    /\ result.df["booking_hour"] = I(23)

\* C27: once a ModelPredictor is constructed, whatever the model file and
\* the metadata file (present, missing, corrupt), model is not None implies
\* features is the full list of 18 names.
C27_ModelImpliesFeatures ==
    ~ModelIsNone(predictor) =>
        (predictor.features = "list" /\ predictor.names = HardcodedFeatures)

\* C29: the fields of a result of predict agree: Medium, High or Critical
\* implies prediction 1; Very Low implies prediction 0 and confidence High;
\* confidence High with prediction 1 implies Critical.
C29_ResultConsistent ==
    Predicted =>
        /\ result.risk_category \in {"Medium", "High", "Critical"}
              => result.prediction = 1
        /\ result.risk_category = "Very Low"
              => (result.prediction = 0 /\ result.confidence = "High")
        /\ (result.confidence = "High" /\ result.prediction = 1)
              => result.risk_category = "Critical"

\* a result with confidence High, prediction 1 and category Critical
C29_Witness ==
    /\ Predicted
    /\ result.confidence = "High"
    /\ result.prediction = 1
    /\ result.risk_category = "Critical"

\* C26: offline feature engineering gives every trip a trip_distance by the
\* haversine formula and flags it: is_long_distance is 1 exactly when
\* trip_distance is strictly greater than 50 km and 0 otherwise, and a trip
\* whose origin and destination are the same point has distance exactly 0
\* and is not flagged.
C26_LongDistanceFlag ==
    (/\ pc = "returned"
     /\ result.op = "clean_booking_data"
     /\ Range(Coordinates) \subseteq Range(arg.columns)) =>
        /\ result.error = ""
        /\ \A i \in 1..Len(arg.rows) :
              LET row == result.table.rows[i]
                  long == /\ ~IsNull(row["trip_distance"])
                          /\ row["trip_distance"].n > 50 * Unit
              IN /\ row["is_long_distance"] = IF long THEN N(1) ELSE N(0)
                 /\ (/\ \A c \in Range(Coordinates) : ~IsNull(row[c])
                     /\ row["from_lat"] = row["to_lat"]
                     /\ row["from_long"] = row["to_long"])
                    => (row["trip_distance"] = N(0)
                        /\ row["is_long_distance"] = N(0))

\* C30: after clean_booking_data returns, no cell of the cleaned frame is
\* missing, in an original or an engineered column, and the caller's frame
\* is as it was passed.
C30_NoMissingAfterCleaning ==
    CleanReturned =>
        /\ \A i \in 1..Len(result.table.rows) :
              \A c \in Range(result.table.columns) :
                  ~IsNull(result.table.rows[i][c])
        /\ caller = arg

====
